---- MODULE Spec2Model ----
(***************************************************************************)
(* A model of the snake engine SEngine<unsigned char, unsigned short> of   *)
(* src/core/SnakeEngine.cpp: construction, move() and to_wstr().            *)
(*                                                                         *)
(* A Cell is a pair <<x, y>>.  The snake is a sequence of cells, head      *)
(* first.  The program variables keep the names of the class members.      *)
(* op, mv and status record the last call, its argument and the value it   *)
(* returned; won and crashed record what the caller has been told so far;    *)
(* arg keeps the arguments the constructor was called with.                *)
(*                                                                         *)
(* buffer is a function from the indices 0 .. length to character units,   *)
(* named by strings: "BORDER" is L'\u2592', "BLOCK" L'\u2588', "CIRCLE"     *)
(* L'\u25cf', "SP" the space, "NL" the newline and "NUL" the terminator.    *)
(***************************************************************************)
EXTENDS Integers, Sequences, FiniteSets, TLC

VARIABLES pc,        \* "new": members initialised, constructor body not run;
                     \* "ready": constructed; "thrown": the constructor threw
          xsz, ysz,  \* board size (U)
          lv_food,   \* foods still to eat (U)
          score,     \* UU
          snake,     \* std::vector<Cell*>, head first
          food,      \* Cell
          prv_mv,    \* last accepted Movement
          op,        \* the last call: "SEngine", "move" or "to_wstr"
          mv,        \* the argument of the last move call
          status,    \* the GameStatus the last move call returned
          won,       \* some move has returned WIN
          crashed,   \* some move has returned LOST from the self-collision check
          arg,       \* the constructor's arguments <<xsz, ysz, lv_food, score>>
          buffer,    \* wchar_t *buffer: the units it points to (<<>> while NULL)
          length,    \* size_t length
          isFirstCall, \* the argument of the last to_wstr call
          heap,      \* the values a unit of freshly allocated memory may hold
          calls      \* the number of move calls made, counted up to MaxCalls

vars == <<pc, xsz, ysz, lv_food, score, snake, food, prv_mv, op, mv, status, won, crashed,
          arg, buffer, length, isFirstCall, heap, calls>>

(***************************************************************************)
(* Bounds of the model.                                                    *)
(***************************************************************************)
\* food is eaten only while the snake is shorter than this
MaxLen == 4
\* a random draw from lo..hi yields lo, hi or a value within RandSpan of the middle
RandSpan == 0
\* constructor arguments tried by SpecCtor: sizes 7..MaxSide, targets 0..MaxTarget
MaxSide == 11
MaxTarget == 3
\* SpecRender makes at most this many move calls
MaxCalls == 4
\* SpecFull starts with this many cells of the grid off the snake
FreeCells == 2

(***************************************************************************)
(* Program constants.                                                      *)
(***************************************************************************)
\* the smallest board side the constructor accepts
MinSide == 9
\* number of values of U = unsigned char and of UU = unsigned short
UMod == 256
UUMod == 65536

Movement == {"UP", "DOWN", "LEFT", "RIGHT"}

\* signed char offset[4][2]
offset == [UP |-> <<-1, 0>>, DOWN |-> <<1, 0>>, LEFT |-> <<0, -1>>, RIGHT |-> <<0, 1>>]

\* conversion of an int to U and to UU
ToU(n) == ((n % UMod) + UMod) % UMod
ToUU(n) == ((n % UUMod) + UUMod) % UUMod

\* the values a call rand_in_range(lo, hi) of random.hpp yields in this model
rand_in_range(lo, hi) ==
    {v \in lo .. hi : \/ v = lo
                      \/ v = hi
                      \/ /\ v >= (lo + hi + 1) \div 2 - RandSpan
                         /\ v <= (lo + hi + 1) \div 2 + RandSpan}

\* the values generate() can return
generate == rand_in_range(0, ToU(xsz - 1)) \X rand_in_range(0, ToU(ysz - 1))

find(b, s) == \E i \in DOMAIN s : s[i] = b

\* addnewfood() without the retry
addnewfoodOnce(s) == generate

\* the cells addnewfood() can leave in food: the retry loop draws cells until one
\* is on no cell of the snake s
addnewfood(s) == {c \in generate : ~find(c, s)}

\* isInvalidMovement with the upper limits off by one
isInvalidMovementOffByOne(head, m) ==
    \/ head[1] + offset[m][1] <= -1
    \/ head[1] + offset[m][1] > xsz
    \/ head[2] + offset[m][2] <= -1
    \/ head[2] + offset[m][2] > ysz

isInvalidMovement(head, m) ==
    \/ head[1] + offset[m][1] <= -1
    \/ head[1] + offset[m][1] >= xsz
    \/ head[2] + offset[m][2] <= -1
    \/ head[2] + offset[m][2] >= ysz

\* areOpposite without the horizontal pair
areOppositeVerticalOnly(a, b) ==
    (a = "UP" /\ b = "DOWN") \/ (a = "DOWN" /\ b = "UP")

areOpposite(a, b) ==
    \/ (a = "UP" /\ b = "DOWN") \/ (a = "DOWN" /\ b = "UP")
    \/ (a = "LEFT" /\ b = "RIGHT") \/ (a = "RIGHT" /\ b = "LEFT")

\* move(), line 116: the direction the call goes on with
Effective(m) == IF areOpposite(m, prv_mv) THEN prv_mv ELSE m

\* move(), lines 122-124: the head after the in-place update
NewHead(m) ==
    <<ToU(snake[1][1] + offset[Effective(m)][1]), ToU(snake[1][2] + offset[Effective(m)][2])>>

\* the count without the last cell of the vector
OccurrenceSkipLast(s) == Cardinality({i \in 1 .. Len(s) - 1 : s[i] = s[1]})

\* move(), lines 127-131
Occurrence(s) == Cardinality({i \in DOMAIN s : s[i] = s[1]})

\* the loop without line 144: hold keeps the old head
RECURSIVE FollowKeepHold(_, _, _)
FollowKeepHold(s, hold, i) ==
    IF i > Len(s) THEN [snake |-> s, hold |-> hold]
    ELSE IF s[i] = s[1] THEN FollowKeepHold(s, hold, i + 1)
    ELSE FollowKeepHold([s EXCEPT ![i] = hold], hold, i + 1)

\* move(), lines 138-145: the loop from cell i on; yields the snake and hold
RECURSIVE Follow(_, _, _)
Follow(s, hold, i) ==
    IF i > Len(s) THEN [snake |-> s, hold |-> hold]
    ELSE IF s[i] = s[1] THEN Follow(s, hold, i + 1)
    ELSE Follow([s EXCEPT ![i] = hold], s[i], i + 1)

\* the test of line 153 with a post-decrement: lv_food-- == 0
VerdictPostDecrement(before, after) == IF before = 0 THEN "WIN" ELSE "NONE"

\* move(), lines 153-158: the status after food was eaten, lv_food being
\* `before` ahead of the decrement and `after` past it
Verdict(before, after) == IF after = 0 THEN "WIN" ELSE "NONE"

\* move(): what the call with argument m makes of the current state, when the
\* re-roll of the food (if there is one) ends on cell f
MoveOutcome(m, f) ==
    LET e == Effective(m)
        same == [snake |-> snake, food |-> food, score |-> score, lv_food |-> lv_food,
                 prv_mv |-> prv_mv, status |-> "LOST", crash |-> FALSE]
    IN  IF isInvalidMovement(snake[1], e) THEN same
        ELSE LET moved == [snake EXCEPT ![1] = NewHead(m)]
             IN  IF Occurrence(moved) > 1
                 THEN [same EXCEPT !.snake = moved, !.crash = TRUE]
                 ELSE LET fl == Follow(moved, snake[1], 1)
                      IN  IF moved[1] = food
                          THEN LET lv == ToU(lv_food - 1)
                                   st == Verdict(lv_food, lv)
                               IN  [snake |-> Append(fl.snake, fl.hold),
                                    food |-> f,
                                    score |-> ToUU(score + 1),
                                    lv_food |-> lv,
                                    prv_mv |-> IF st = "WIN" THEN prv_mv ELSE e,
                                    status |-> st,
                                    crash |-> FALSE]
                          ELSE [same EXCEPT !.snake = fl.snake, !.prv_mv = e,
                                            !.status = "NONE"]

\* the call move(m) gets as far as the test of line 147 and finds the head on the food
Eats(m) ==
    /\ ~isInvalidMovement(snake[1], Effective(m))
    /\ Occurrence([snake EXCEPT ![1] = NewHead(m)]) = 1
    /\ NewHead(m) = food

\* the cells the re-roll of move(m) can end on
Reroll(m) == IF Eats(m) THEN addnewfood(MoveOutcome(m, food).snake) ELSE {food}

(***************************************************************************)
(* const wchar_t * to_wstr(bool isFirstCall)                               *)
(*                                                                         *)
(* A drawing in progress is a record: buf is the buffer, k, x and y are    *)
(* the locals of to_wstr, w is the set of indices written so far.          *)
(***************************************************************************)
\* buffer[k++] = g
Put(d, g) ==
    [d EXCEPT !.buf = [d.buf EXCEPT ![d.k] = g], !.k = d.k + 1, !.w = d.w \cup {d.k}]

\* two units in a row
Pair(d, g, h) == Put(Put(d, g), h)

\* k += n
Skip(d, n) == [d EXCEPT !.k = d.k + n]

\* buffer[k] = L'\0', line 254
Terminate(d) == [d EXCEPT !.buf = [d.buf EXCEPT ![d.k] = "NUL"], !.w = d.w \cup {d.k}]

\* the macro LENGTH, line 211
LENGTH(X, Y) == (((X + 2) * (Y + 2)) * 2) + X + 2

\* the loop with the test y < ysz
RECURSIVE BorderRowShort(_)
BorderRowShort(d) ==
    IF d.y < ysz THEN BorderRowShort([Pair(d, "BORDER", "BORDER") EXCEPT !.y = d.y + 1])
    ELSE Put(Pair(d, "BORDER", "BORDER"), "NL")

\* lines 218-225 and 246-253: a horizontal border, from column d.y on, its last
\* pair and its newline
RECURSIVE BorderRow(_)
BorderRow(d) ==
    IF d.y <= ysz THEN BorderRow([Pair(d, "BORDER", "BORDER") EXCEPT !.y = d.y + 1])
    ELSE Put(Pair(d, "BORDER", "BORDER"), "NL")

\* the inner loop without line 236: the units of the cells are not stepped over
RECURSIVE FrameRowNoSkip(_)
FrameRowNoSkip(d) ==
    IF d.y >= ysz THEN d
    ELSE LET left == IF d.y = 0 THEN Pair(d, "BORDER", "BORDER") ELSE d
             right == IF d.y = ysz - 1 THEN Put(Pair(left, "BORDER", "BORDER"), "NL")
                      ELSE left
         IN  FrameRowNoSkip([right EXCEPT !.y = d.y + 1])

\* lines 229-243: the inner loop from column d.y on: the vertical borders and the
\* newline of row d.x; the two units of a cell are stepped over
RECURSIVE FrameRow(_)
FrameRow(d) ==
    IF d.y >= ysz THEN d
    ELSE LET left == IF d.y = 0 THEN Pair(d, "BORDER", "BORDER") ELSE d
             cell == Skip(left, 2)
             right == IF d.y = ysz - 1 THEN Put(Pair(cell, "BORDER", "BORDER"), "NL")
                      ELSE cell
         IN  FrameRow([right EXCEPT !.y = d.y + 1])

\* lines 228-244: the outer loop from row d.x on
RECURSIVE Frame(_)
Frame(d) ==
    IF d.x >= xsz THEN d
    ELSE Frame([FrameRow([d EXCEPT !.y = 0]) EXCEPT !.x = d.x + 1])

\* the label _draw_all, lines 203-255, on memory every unit of which holds j
DrawAll(j) ==
    LET fresh == [buf |-> [i \in 0 .. LENGTH(xsz, ysz) |-> j], k |-> 0, x |-> 0, y |-> 0,
                  w |-> {}]
        top == BorderRow(fresh)
        rows == Frame([top EXCEPT !.x = 0, !.y = 0])
        bottom == BorderRow([rows EXCEPT !.y = 0])
    IN  Terminate(bottom)

\* line 170: the index the drawing of the cells starts from
StartK == ((ysz + 1) * 2) + 3

\* the chain of tests without the branch of find()
CellGlyphsHeadOnly(c) ==
    IF snake[1] = c THEN <<"BLOCK", "BLOCK">>
    ELSE IF c = food THEN <<"CIRCLE", "SP">>
    ELSE <<"SP", "SP">>

\* lines 184-196: the two units of cell c
CellGlyphs(c) ==
    IF snake[1] = c THEN <<"BLOCK", "BLOCK">>
    ELSE IF find(c, snake) THEN <<"BLOCK", "BLOCK">>
    ELSE IF c = food THEN <<"CIRCLE", "SP">>
    ELSE <<"SP", "SP">>

\* the inner loop with k += 2 at the end of the row
RECURSIVE DrawRowShortSkip(_)
DrawRowShortSkip(d) ==
    IF d.y >= ysz THEN d
    ELSE LET left == IF d.y = 0 THEN Skip(d, 2) ELSE d
             cell == Pair(left, CellGlyphs(<<d.x, d.y>>)[1], CellGlyphs(<<d.x, d.y>>)[2])
             right == IF d.y = ysz - 1 THEN Skip(cell, 2) ELSE cell
         IN  DrawRowShortSkip([right EXCEPT !.y = d.y + 1])

\* lines 177-199: the inner loop from column d.y on: the cells of row d.x
RECURSIVE DrawRow(_)
DrawRow(d) ==
    IF d.y >= ysz THEN d
    ELSE LET left == IF d.y = 0 THEN Skip(d, 2) ELSE d
             cell == Pair(left, CellGlyphs(<<d.x, d.y>>)[1], CellGlyphs(<<d.x, d.y>>)[2])
             right == IF d.y = ysz - 1 THEN Skip(cell, 3) ELSE cell
         IN  DrawRow([right EXCEPT !.y = d.y + 1])

\* lines 176-200: the outer loop from row d.x on
RECURSIVE DrawCellsFrom(_)
DrawCellsFrom(d) ==
    IF d.x >= xsz THEN d
    ELSE DrawCellsFrom([DrawRow([d EXCEPT !.y = 0]) EXCEPT !.x = d.x + 1])

\* lines 170-201: the drawing of the cells into the buffer buf
DrawCells(buf) == DrawCellsFrom([buf |-> buf, k |-> StartK, x |-> 0, y |-> 0, w |-> {}])

\* the test with the flag negated
GoesToDrawAllNegated(first) == ~first

\* line 174: the call goes to _draw_all
GoesToDrawAll(first) == first

\* the call to_wstr(first): what it does to the buffer.  malloc() returns memory
\* whose units hold some value of heap
to_wstr(first) ==
    /\ IF GoesToDrawAll(first)
       THEN /\ \E j \in heap : buffer' = DrawAll(j).buf
            /\ length' = LENGTH(xsz, ysz)
       ELSE /\ buffer' = DrawCells(buffer).buf
            /\ UNCHANGED length
    /\ isFirstCall' = first

(***************************************************************************)
(* The constructor.                                                        *)
(***************************************************************************)
\* the checks without the one of ysz
ThrowsWidthOnly(x, y, lv) == x < MinSide \/ lv <= 0

\* lines 89-93: the constructor throws
Throws(x, y, lv) == x < MinSide \/ y < MinSide \/ lv <= 0

\* the second cell on the other side of the first
FirstSnakeNeckLeft(x, y) ==
    <<<<ToU(x \div 2), ToU(y \div 2)>>, <<ToU(x \div 2), ToU(y \div 2 - 1)>>>>

\* lines 95-96: the two cells pushed on the empty snake
FirstSnake(x, y) ==
    <<<<ToU(x \div 2), ToU(y \div 2)>>, <<ToU(x \div 2), ToU(y \div 2 + 1)>>>>

SEngine ==
    /\ pc = "new"
    /\ op' = "SEngine"
    /\ IF Throws(xsz, ysz, lv_food)
       THEN /\ pc' = "thrown"
            /\ UNCHANGED <<snake, food, prv_mv, buffer, length, isFirstCall>>
       ELSE /\ pc' = "ready"
            /\ snake' = FirstSnake(xsz, ysz)
            /\ food' \in addnewfood(snake')
            /\ prv_mv' = "LEFT"
            /\ to_wstr(TRUE)
    /\ UNCHANGED <<xsz, ysz, lv_food, score, mv, status, won, crashed, arg, heap, calls>>

(***************************************************************************)
(* GameStatus move(Movement mv)                                            *)
(***************************************************************************)
\* When no cell that can be drawn is free, Reroll(m) is empty: addnewfood() retries
\* for ever and the call does not return, so there is no step.
move(m) ==
    /\ pc = "ready"
    /\ \E f \in Reroll(m) :
         LET o == MoveOutcome(m, f)
         IN  /\ snake' = o.snake
             /\ food' = o.food
             /\ score' = o.score
             /\ lv_food' = o.lv_food
             /\ prv_mv' = o.prv_mv
             /\ status' = o.status
             /\ won' = (won \/ o.status = "WIN")
             /\ crashed' = (crashed \/ o.crash)
    /\ op' = "move"
    /\ mv' = m
    /\ calls' = IF calls < MaxCalls THEN calls + 1 ELSE calls
    /\ UNCHANGED <<pc, xsz, ysz, arg, buffer, length, isFirstCall, heap>>

(***************************************************************************)
(* A call of to_wstr by the user of the engine.                            *)
(***************************************************************************)
CallToWstr(first) ==
    /\ pc = "ready"
    /\ to_wstr(first)
    /\ op' = "to_wstr"
    /\ UNCHANGED <<pc, xsz, ysz, lv_food, score, snake, food, prv_mv, mv, status, won,
                   crashed, arg, heap, calls>>

(***************************************************************************)
(* Specifications.  Init is the engine after the member initialisers of    *)
(* the constructor (line 87), before its body.                             *)
(***************************************************************************)
\* snake is the empty vector; food, prv_mv and length are not initialised yet and
\* are not read before the constructor body assigns them; buffer is NULL.  mem is
\* the set of values allocated memory can hold
Members(args, mem) ==
    /\ pc = "new"
    /\ arg \in args
    /\ xsz = arg[1]
    /\ ysz = arg[2]
    /\ lv_food = arg[3]
    /\ score = arg[4]
    /\ snake = <<>>
    /\ food = <<0, 0>>
    /\ prv_mv = "LEFT"
    /\ op = "-"
    /\ mv = "-"
    /\ status = "-"
    /\ won = FALSE
    /\ crashed = FALSE
    /\ buffer = <<>>
    /\ length = 0
    /\ isFirstCall = FALSE
    /\ heap = mem
    /\ calls = 0

\* the engines that are played
PlayArgs == {<<9, 9, 1, 0>>, <<10, 9, 3, 65535>>, <<8, 9, 1, 0>>}

\* constructor arguments of every kind
CtorArgs == ((MinSide - 2) .. MaxSide) \X ((MinSide - 2) .. MaxSide) \X (0 .. MaxTarget)
                \X {0, 1, UUMod - 1}

\* the engines that are drawn
RenderArgs == {<<10, 9, 3, 0>>, <<9, 11, 1, 0>>}

\* what malloc() can leave in a unit
Junk == {"NUL", "BLOCK"}

\* the calls of move the bounded specifications make: food is eaten only while the
\* snake is shorter than MaxLen
Capped(m) == pc = "ready" /\ (Eats(m) => Len(snake) < MaxLen)

Init == Members(PlayArgs, {"NUL"})

Next == SEngine \/ \E m \in Movement : Capped(m) /\ move(m)

Spec == Init /\ [][Next]_vars

InitCtor == Members(CtorArgs, Junk)

NextCtor == SEngine

SpecCtor == InitCtor /\ [][NextCtor]_vars

InitRender == Members(RenderArgs, Junk)

NextRender ==
    \/ SEngine
    \/ calls < MaxCalls /\ \E m \in Movement : Capped(m) /\ move(m)
    \/ \E first \in BOOLEAN : CallToWstr(first)

SpecRender == InitRender /\ [][NextRender]_vars

(***************************************************************************)
(* The end of a long game.  On the board of 10 by 9 cells the cells        *)
(* Tour(0), ..., Tour(89), Tour(0) are a closed tour of the grid, each one *)
(* step from the next: rows 0 .. 9 to and fro over the columns 1 .. 8,     *)
(* then column 0 back from row 9 to row 0.  The snake of the constructor   *)
(* lies on it, <<5, 5>> then <<5, 4>>, going LEFT.  A game in which the    *)
(* snake goes along the tour and each food comes to lie on the tour ahead  *)
(* of the head brings the snake to any stretch of the tour: a food d cells *)
(* ahead moves the tail d - 1 cells on and adds one cell, every move       *)
(* returning NONE.  TourGame is such a game in one step, from the state    *)
(* the constructor left to a state in which FreeCells cells are off the    *)
(* snake, the food on one of them.  SpecFull plays on from there, as long  *)
(* as no move has returned LOST.                                           *)
(***************************************************************************)
FullArg == <<10, 9, 255, 0>>

Tour(i) ==
    LET lane == FullArg[2] - 1
        n == FullArg[1] * lane
    IN  IF i < n
        THEN <<i \div lane,
               IF (i \div lane) % 2 = 0 THEN 1 + (i % lane) ELSE lane - (i % lane)>>
        ELSE <<FullArg[1] - 1 - (i - n), 0>>

\* the stretch of len cells of the tour that starts on Tour(a), head first
Stretch(a, len) ==
    [p \in 1 .. len |-> Tour((a + len - p) % (FullArg[1] * FullArg[2]))]

\* the tour is closed, goes over every cell of the grid once, and the snake lies on
\* it, the head ahead of the second cell
TourFits ==
    LET all == xsz * ysz
    IN  /\ \A i \in 0 .. all - 1 :
              \E m \in Movement :
                  Tour((i + 1) % all) = <<Tour(i)[1] + offset[m][1], Tour(i)[2] + offset[m][2]>>
        /\ {Tour(i) : i \in 0 .. all - 1} = (0 .. xsz - 1) \X (0 .. ysz - 1)
        /\ \E i \in 0 .. all - 1 : snake = <<Tour((i + 1) % all), Tour(i)>>

TourGame ==
    LET all == xsz * ysz
        len == all - FreeCells
    IN  /\ pc = "ready"
        /\ op = "SEngine"
        /\ arg = FullArg
        /\ TourFits
        /\ \E a \in 0 .. all - 1 :
              /\ snake' = Stretch(a, len)
              /\ \E d \in 0 .. FreeCells - 1 : food' = Tour((a + len + d) % all)
        /\ lv_food' = ToU(lv_food - (len - 2))
        /\ score' = ToUU(score + (len - 2))
        /\ prv_mv' = CHOOSE m \in Movement :
                        snake'[1] = <<snake'[2][1] + offset[m][1], snake'[2][2] + offset[m][2]>>
        /\ op' = "move"
        /\ mv' = prv_mv'
        /\ status' = "NONE"
        /\ calls' = MaxCalls
        /\ UNCHANGED <<pc, xsz, ysz, won, crashed, arg, buffer, length, isFirstCall, heap>>

InitFull == Members({FullArg}, {"NUL"})

NextFull ==
    \/ SEngine
    \/ TourGame
    \/ /\ Len(snake) + FreeCells >= xsz * ysz
       /\ status # "LOST"
       /\ \E m \in Movement : move(m)

SpecFull == InitFull /\ [][NextFull]_vars

(***************************************************************************)
(* Vocabulary of the properties.                                           *)
(***************************************************************************)
Ready == pc = "ready"

InGrid(c) == c[1] >= 0 /\ c[1] < xsz /\ c[2] >= 0 /\ c[2] < ysz

Opposite(d) ==
    CASE d = "UP" -> "DOWN" [] d = "DOWN" -> "UP" [] d = "LEFT" -> "RIGHT" [] d = "RIGHT" -> "LEFT"

\* the direction a request m is to be served with when the last accepted one is d
Clamped(m, d) == IF m = Opposite(d) THEN d ELSE m

\* the cell one step from c in direction d
Step(c, d) ==
    CASE d = "UP" -> <<c[1] - 1, c[2]>>
      [] d = "DOWN" -> <<c[1] + 1, c[2]>>
      [] d = "LEFT" -> <<c[1], c[2] - 1>>
      [] d = "RIGHT" -> <<c[1], c[2] + 1>>

Cells(s) == {s[i] : i \in DOMAIN s}

NoDup(s) == \A i, j \in DOMAIN s : i # j => s[i] # s[j]

\* the engine state a caller can tell apart
Game == <<snake, food, score, lv_food, prv_mv>>

(***************************************************************************)
(* C1  Bounds rejection: a move whose direction, after the clamp, leads    *)
(* off the grid returns LOST and changes no cell of the snake, nor the     *)
(* food, score, lv_food or prv_mv.                                         *)
(***************************************************************************)
BoundsRejection ==
    [][(Ready /\ op' = "move" /\ ~InGrid(Step(snake[1], Clamped(mv', prv_mv))))
          => (status' = "LOST" /\ Game' = Game)]_vars

\* a move off the grid has just been rejected
BoundsRejected ==
    /\ Ready /\ op = "move" /\ status = "LOST" /\ ~crashed
    /\ ~InGrid(Step(snake[1], Clamped(mv, prv_mv)))

(***************************************************************************)
(* C2  Opposite-direction clamp: a request for the opposite of prv_mv has  *)
(* the same outcome (status and state, for the same re-rolled food) as a   *)
(* request for prv_mv, and the head goes the way of prv_mv; any other      *)
(* request moves the head the way requested.                               *)
(***************************************************************************)
OppositeClamp ==
    [][(Ready /\ op' = "move")
          => /\ \A f \in Reroll(prv_mv) :
                  MoveOutcome(Opposite(prv_mv), f) = MoveOutcome(prv_mv, f)
             /\ snake'[1] # snake[1] => snake'[1] = Step(snake[1], Clamped(mv', prv_mv))
             /\ (snake'[1] = snake[1] /\ mv' = Opposite(prv_mv))
                    => ~InGrid(Step(snake[1], prv_mv))]_vars

\* a request for the opposite direction has just been served as prv_mv
ClampServed ==
    /\ Ready /\ op = "move" /\ status = "NONE"
    /\ mv = Opposite(prv_mv)
    /\ snake[2] = Step(snake[1], mv)

\* where the head is to go on a request m
Target(m) == Step(snake[1], Clamped(m, prv_mv))

\* a request m puts the head on the food: in the grid and on no cell of the snake
Lands(m) == InGrid(Target(m)) /\ Target(m) \notin Cells(snake) /\ Target(m) = food

(***************************************************************************)
(* C3  Growth on food: a move that puts the head on the food makes the     *)
(* snake one cell longer, the new last cell where the tail was, adds       *)
(* exactly 1 to score, takes exactly 1 from lv_food and leaves the food on *)
(* no cell of the snake; a move whose head does not reach the food leaves  *)
(* length, score, lv_food and food as they were.                           *)
(***************************************************************************)
GrowthOnFood ==
    [][(Ready /\ op' = "move")
          => IF Lands(mv')
             THEN /\ Len(snake') = Len(snake) + 1
                  /\ snake'[Len(snake')] = snake[Len(snake)]
                  /\ score' = score + 1
                  /\ lv_food' = lv_food - 1
                  /\ food' \notin Cells(snake')
             ELSE /\ Len(snake') = Len(snake)
                  /\ UNCHANGED <<score, lv_food, food>>]_vars

(***************************************************************************)
(* C4  Win condition, as claimed: a move returns WIN exactly when it eats  *)
(* food and brings lv_food to 0; on the engine (9, 9, 1, 0) the first move *)
(* onto the food returns WIN with score 1 and a snake of 3 cells; and      *)
(* lv_food >= 1 whenever the last move returned NONE.                      *)
(***************************************************************************)
WinConditionAsClaimed ==
    /\ [](Ready /\ op = "move" /\ status = "NONE" => lv_food >= 1)
    /\ [][(Ready /\ op' = "move")
            => /\ status' = "WIN" <=> (Lands(mv') /\ lv_food' = 0)
               /\ (arg = <<9, 9, 1, 0>> /\ Len(snake) = 2 /\ Lands(mv'))
                     => (status' = "WIN" /\ score' = 1 /\ Len(snake') = 3)]_vars

(***************************************************************************)
(* C4  Win condition, amended: as above, with lv_food >= 1 whenever the    *)
(* last move returned NONE and no move has returned WIN before.            *)
(***************************************************************************)
WinCondition ==
    /\ [](Ready /\ op = "move" /\ status = "NONE" /\ ~won => lv_food >= 1)
    /\ [][(Ready /\ op' = "move")
            => /\ status' = "WIN" <=> (Lands(mv') /\ lv_food' = 0)
               /\ (arg = <<9, 9, 1, 0>> /\ Len(snake) = 2 /\ Lands(mv'))
                     => (status' = "WIN" /\ score' = 1 /\ Len(snake') = 3)]_vars

\* the engine (9, 9, 1, 0) has just returned WIN for its first food
FirstFoodWins ==
    /\ Ready /\ op = "move" /\ status = "WIN"
    /\ arg = <<9, 9, 1, 0>> /\ score = 1 /\ Len(snake) = 3 /\ lv_food = 0

(***************************************************************************)
(* C5  Self-collision: a move that puts the head on another cell of the    *)
(* snake, the tail included, returns LOST; the head keeps the new cell,    *)
(* the other cells, food, score, lv_food and prv_mv are unchanged.         *)
(***************************************************************************)
SelfCollision ==
    [][(Ready /\ op' = "move" /\ Target(mv') \in Cells(Tail(snake)))
          => /\ status' = "LOST"
             /\ snake' = [snake EXCEPT ![1] = Target(mv')]
             /\ UNCHANGED <<food, score, lv_food, prv_mv>>]_vars

\* a snake of four cells or more, in a game not won, has just run into its tail
TailHit ==
    /\ Ready /\ op = "move" /\ status = "LOST" /\ ~won
    /\ Len(snake) >= 4
    /\ snake[1] = snake[Len(snake)]
    /\ NoDup(Tail(snake))

(***************************************************************************)
(* C6  Construction validity: the constructor throws, leaving no snake,    *)
(* if xsz < 9 or ysz < 9 or lv_food <= 0; otherwise it ends with a snake   *)
(* of 2 cells, (xsz/2, ysz/2) and (xsz/2, ysz/2 + 1), the food on neither, *)
(* prv_mv LEFT, and score and lv_food as given.                            *)
(***************************************************************************)
ConstructionValidity ==
    /\ pc = "new" => (Throws(xsz, ysz, lv_food) \/ addnewfood(FirstSnake(xsz, ysz)) # {})
    /\ pc = "thrown" => /\ arg[1] < 9 \/ arg[2] < 9 \/ arg[3] <= 0
                        /\ snake = <<>>
    /\ pc = "ready" => /\ arg[1] >= 9 /\ arg[2] >= 9 /\ arg[3] > 0
                       /\ snake = <<<<arg[1] \div 2, arg[2] \div 2>>,
                                    <<arg[1] \div 2, arg[2] \div 2 + 1>>>>
                       /\ InGrid(food)
                       /\ food \notin Cells(snake)
                       /\ prv_mv = "LEFT"
                       /\ score = arg[4]
                       /\ lv_food = arg[3]
                       /\ xsz = arg[1] /\ ysz = arg[2]

\* an engine with an odd and an even side has been constructed
Constructed ==
    pc = "ready" /\ op = "SEngine" /\ arg[1] = 9 /\ arg[2] = 10 /\ arg[4] = UUMod - 1

(***************************************************************************)
(* C7  Snake bounds and length: between calls, whatever the moves made and *)
(* the statuses returned, the snake has at least 2 cells and each is in    *)
(* the grid.                                                               *)
(***************************************************************************)
SnakeInGrid ==
    Ready => Len(snake) >= 2 /\ \A i \in DOMAIN snake : InGrid(snake[i])

\* a move made after a WIN and a self-collision LOST has returned NONE, the head
\* on an edge of the grid
PlayedOnAtEdge ==
    /\ Ready /\ op = "move" /\ status = "NONE" /\ won /\ crashed
    /\ snake[1][1] = xsz - 1

(***************************************************************************)
(* C8  No duplicate cells, as claimed: between calls no two cells of the   *)
(* snake are equal, whatever status the moves returned.                    *)
(***************************************************************************)
NoDuplicateCells == Ready => NoDup(snake)

(***************************************************************************)
(* C8  No duplicate cells, amended: between calls no two cells of the      *)
(* snake are equal as long as no move has returned LOST from the           *)
(* self-collision check.                                                   *)
(***************************************************************************)
NoDuplicateBeforeCrash == (Ready /\ ~crashed) => NoDup(snake)

\* a snake of four cells that never ran into itself has been refused a move
\* off the grid
LongSnakeRejected ==
    /\ Ready /\ op = "move" /\ status = "LOST" /\ ~crashed
    /\ Len(snake) >= 4

(***************************************************************************)
(* C9  Food disjointness: between calls, whatever status the moves         *)
(* returned, the food is in the grid and on no cell of the snake.          *)
(***************************************************************************)
FoodDisjoint == Ready => InGrid(food) /\ food \notin Cells(snake)

\* food has been eaten and placed anew, and a later move ended in a self-collision
FoodAfterCrash ==
    /\ Ready /\ op = "move" /\ status = "LOST" /\ crashed
    /\ Len(snake) >= 3
    /\ snake[1] \in Cells(Tail(snake))

(***************************************************************************)
(* C10  Score monotonicity: no move makes score smaller, and a move that   *)
(* eats food adds exactly 1 to it, whatever score the engine started with. *)
(***************************************************************************)
ScoreMonotone ==
    [][(Ready /\ op' = "move")
          => /\ score' >= score
             /\ Len(snake') > Len(snake) => score' = score + 1]_vars

(***************************************************************************)
(* Vocabulary of the properties of the rendering.  The text is xsz + 2     *)
(* rows of ysz + 2 pairs of units and a newline each; the first and the    *)
(* last row and the first and the last pair of a row are the border.       *)
(***************************************************************************)
RowLen == 2 * (ysz + 2) + 1

\* the index of the first of the two units of cell <<x, y>>
CellIndex(x, y) == (x + 1) * (2 * ysz + 5) + 2 + 2 * y

\* the indices of the units of the cells
Interior ==
    UNION {{CellIndex(x, y), CellIndex(x, y) + 1} : x \in 0 .. xsz - 1, y \in 0 .. ysz - 1}

\* the two units that stand for cell c when the snake is s and the food is on f
Glyphs(c, s, f) ==
    IF c \in Cells(s) THEN <<"BLOCK", "BLOCK">>
    ELSE IF c = f THEN <<"CIRCLE", "SP">>
    ELSE <<"SP", "SP">>

\* every cell of buf stands for the snake s and the food f
Shows(buf, s, f) ==
    \A x \in 0 .. xsz - 1, y \in 0 .. ysz - 1 :
        <<buf[CellIndex(x, y)], buf[CellIndex(x, y) + 1]>> = Glyphs(<<x, y>>, s, f)

\* the unit the border, the newlines and the terminator have at index k
FrameUnit(k) ==
    IF k = LENGTH(xsz, ysz) THEN "NUL"
    ELSE IF k % RowLen = RowLen - 1 THEN "NL"
    ELSE "BORDER"

\* buf has length + 1 units; outside the cells they are border, newline and terminator
Framed(buf) ==
    LET cells == Interior
    IN  /\ DOMAIN buf = 0 .. length
        /\ \A k \in (0 .. length) \ cells : buf[k] = FrameUnit(k)

(***************************************************************************)
(* C11  Render refreshed by move: when a move returns from anywhere but    *)
(* the bounds check (self-collision LOST, NONE or WIN), the buffer shows   *)
(* the snake and the food as the move left them, with no call of to_wstr   *)
(* in between.                                                             *)
(***************************************************************************)
RenderRefreshedByMove ==
    [][(Ready /\ op' = "move" /\ InGrid(Target(mv')))
          => Shows(buffer', snake', food')]_vars

RenderSize ==
    LET cells == Interior
    IN  Ready => /\ length = ((xsz + 2) * (ysz + 2)) * 2 + xsz + 2
                 /\ DOMAIN buffer = 0 .. length
                 /\ buffer[length] = "NUL"
                 /\ \A j \in heap : DrawAll(j).k = length
                 /\ length = (xsz + 2) * (2 * (ysz + 2) + 1)
                 /\ \A r \in 0 .. xsz + 1 :
                        /\ buffer[r * (2 * (ysz + 2) + 1) + 2 * (ysz + 2)] = "NL"
                        /\ \A i \in 0 .. 2 * (ysz + 2) - 1 :
                               LET k == r * (2 * (ysz + 2) + 1) + i
                               IN  k \notin cells => buffer[k] = "BORDER"

\* a board of 11 by 9 cells has been drawn: 299 units and the terminator
BoardSized ==
    /\ Ready /\ xsz = 11 /\ ysz = 9
    /\ length = 299 /\ buffer[299] = "NUL" /\ buffer[298] = "NL"

(***************************************************************************)
(* C14  Idempotent render: in every state, a to_wstr() that follows a      *)
(* to_wstr() with no move in between leaves the buffer as the first left   *)
(* it, and a to_wstr() changes neither snake, food, score, lv_food, prv_mv *)
(* nor the size of the board.                                              *)
(***************************************************************************)
IdempotentRender ==
    /\ [](Ready => DrawCells(DrawCells(buffer).buf).buf = DrawCells(buffer).buf)
    /\ [][(Ready /\ op' = "to_wstr" /\ ~isFirstCall')
             => /\ Game' = Game
                /\ UNCHANGED <<xsz, ysz, length>>
                /\ (op = "to_wstr" /\ ~isFirstCall) => buffer' = buffer]_vars

\* a snake of three cells has been drawn by a to_wstr() that followed a move
RenderedAfterMove ==
    /\ Ready /\ op = "to_wstr" /\ ~isFirstCall /\ calls > 0
    /\ Len(snake) = 3
    /\ Shows(buffer, snake, food)

(***************************************************************************)
(* C17  Static border: after the constructor, in every state, a to_wstr()  *)
(* writes the 2 * xsz * ysz units of the cells and no other; the border,   *)
(* the newlines and the terminator are as the constructor wrote them, and  *)
(* every index written is below length.                                    *)
(***************************************************************************)
StaticBorder ==
    /\ [](Ready => /\ Framed(buffer)
                   /\ DrawCells(buffer).w = Interior
                   /\ Cardinality(DrawCells(buffer).w) = 2 * xsz * ysz
                   /\ \A k \in DrawCells(buffer).w : k < length)
    /\ [][(Ready /\ op' = "to_wstr" /\ ~isFirstCall')
             => LET cells == Interior
                IN  /\ DOMAIN buffer' = DOMAIN buffer
                    /\ \A k \in (0 .. length) \ cells : buffer'[k] = buffer[k]]_vars

\* the head has been drawn in the first column, next to the border
HeadDrawnAtBorder ==
    /\ Ready /\ op = "to_wstr" /\ ~isFirstCall /\ calls = MaxCalls
    /\ snake[1][2] = 0
    /\ buffer[CellIndex(snake[1][1], 0)] = "BLOCK"
    /\ buffer[CellIndex(snake[1][1], 0) - 1] = "BORDER"

(***************************************************************************)
(* C18  Render cell mapping: after a to_wstr(), for every cell <<x, y>>    *)
(* the units at (x+1)*(2*ysz+5) + 2 + 2*y and the next index are two       *)
(* blocks if the cell is the head or any cell of the snake; else circle    *)
(* and space if it is the food; else two spaces.                           *)
(***************************************************************************)
RenderCellMapping ==
    /\ (Ready /\ op = "to_wstr" /\ ~isFirstCall) => Shows(buffer, snake, food)
    /\ Ready => Shows(DrawCells(buffer).buf, snake, food)

\* a snake of three cells and the food placed anew have been drawn
GrownSnakeDrawn ==
    /\ Ready /\ op = "to_wstr" /\ ~isFirstCall
    /\ Len(snake) = 3 /\ xsz # ysz
    /\ buffer[CellIndex(snake[3][1], snake[3][2])] = "BLOCK"
    /\ buffer[CellIndex(food[1], food[2])] = "CIRCLE"
    /\ buffer[CellIndex(food[1], food[2]) + 1] = "SP"

(***************************************************************************)
(* C15  Body follow: on a move that passes the bounds check and the        *)
(* self-collision check, the snake being s[1..n] and h the cell one step   *)
(* from s[1] in the clamped direction, the snake becomes h, s[1], ...,     *)
(* s[n-1], followed by s[n] if h is the food and by nothing otherwise.     *)
(***************************************************************************)
BodyFollow ==
    [][(Ready /\ op' = "move" /\ InGrid(Target(mv')) /\ Target(mv') \notin Cells(Tail(snake)))
          => LET n == Len(snake)
             IN  /\ snake'[1] = Target(mv')
                 /\ \A i \in 2 .. n : snake'[i] = snake[i - 1]
                 /\ IF Target(mv') = food
                    THEN Len(snake') = n + 1 /\ snake'[n + 1] = snake[n]
                    ELSE Len(snake') = n]_vars

\* a snake of four cells has turned a corner
CornerTurned ==
    /\ Ready /\ op = "move" /\ status = "NONE" /\ ~crashed
    /\ Len(snake) = 4
    /\ snake[1][1] # snake[3][1] /\ snake[1][2] # snake[3][2]
    /\ snake[2][1] # snake[4][1] /\ snake[2][2] # snake[4][2]

\* the number of steps between the cells a and b
Distance(a, b) ==
    (IF a[1] >= b[1] THEN a[1] - b[1] ELSE b[1] - a[1])
        + (IF a[2] >= b[2] THEN a[2] - b[2] ELSE b[2] - a[2])

(***************************************************************************)
(* C19  Chain and neck: as long as no move has returned WIN or LOST from   *)
(* the self-collision check (a move refused at the bounds check changes    *)
(* nothing), consecutive cells of the snake are one step apart and the     *)
(* second cell is one step from the head against prv_mv, so the clamp      *)
(* changes exactly the request that leads into the second cell; prv_mv is  *)
(* changed only by a move that returns NONE, which sets it to the clamped  *)
(* direction; and no move ends in a self-collision while the snake has     *)
(* fewer than 4 cells.                                                     *)
(***************************************************************************)
ChainAndNeck ==
    /\ []((Ready /\ ~won /\ ~crashed)
             => /\ \A i \in 1 .. Len(snake) - 1 : Distance(snake[i], snake[i + 1]) = 1
                /\ snake[2] = Step(snake[1], Opposite(prv_mv))
                /\ \A m \in Movement : (Effective(m) # m) <=> (Step(snake[1], m) = snake[2]))
    /\ [][(Ready /\ op' = "move")
             => /\ prv_mv' # prv_mv => status' = "NONE"
                /\ status' = "NONE" => prv_mv' = Clamped(mv', prv_mv)
                /\ (~won /\ ~crashed /\ Len(snake) < 4) => ~crashed']_vars

\* a snake of four cells that has only been told NONE goes up, its second cell
\* below the head
NeckBelowHead ==
    /\ Ready /\ op = "move" /\ status = "NONE" /\ ~won /\ ~crashed
    /\ Len(snake) = 4
    /\ prv_mv = "UP"
    /\ snake[2] = <<snake[1][1] + 1, snake[1][2]>>

(***************************************************************************)
(* C20  Counter conservation: in every state up to and including the one   *)
(* left by the first WIN, with e the number of foods eaten, the target     *)
(* given to the constructor less lv_food: the snake has 2 + e cells, score *)
(* is the score given to the constructor plus e modulo 65536, and lv_food  *)
(* is between 0 and the target: it has not wrapped below 0.                *)
(***************************************************************************)
CounterConservation ==
    (Ready /\ (~won \/ status = "WIN"))
        => /\ Len(snake) = 2 + (arg[3] - lv_food)
           /\ score = (arg[4] + (arg[3] - lv_food)) % 65536
           /\ 0 <= lv_food /\ lv_food <= arg[3]

\* two foods have been eaten by an engine that started with score 65535
TwoEatenPastWrap ==
    /\ Ready /\ ~won /\ ~crashed
    /\ arg = <<10, 9, 3, 65535>>
    /\ lv_food = 1 /\ score = 1 /\ Len(snake) = 4

(***************************************************************************)
(* C16  Food placement terminates: whenever food has to be placed, some    *)
(* cell of the grid is off the snake, so that the retry loop of            *)
(* addnewfood() comes to an end: a move that puts the head on the food     *)
(* does not leave the snake on every cell of the grid.                     *)
(***************************************************************************)
FoodPlacementTerminates ==
    Ready => \A m \in Movement :
                 Lands(m) => Cardinality(Cells(snake) \cup {Target(m)}) < xsz * ysz

====
